---------------------------- MODULE Spec2Model ----------------------------
(***************************************************************************)
(* Morning Crema (src/app.py): a Streamlit page that turns a YouTube       *)
(* video's transcript into a narrated briefing.                            *)
(*                                                                         *)
(* Modelling conventions                                                   *)
(*   - A Python str that the program inspects (the URL, the video id) is   *)
(*     a sequence of one-character strings; "" is << >>.                   *)
(*   - An Optional value is a sequence of length at most one: None is      *)
(*     << >> and the value x is << x >>.                                   *)
(*   - An exception is the string of its class name.                       *)
(***************************************************************************)
EXTENDS Integers, Sequences, FiniteSets, TLC

VARIABLES
    session_state,   \* per browser session: st.session_state (script, audio, video_url)
    api_key,         \* per browser session: the sidebar text input OPENAI_API_KEY
    run,             \* per browser session: the position and locals of the script run
    hist,            \* per browser session: history of the runs (for stating properties)
    openai_api_key,  \* the process-wide module attribute openai.api_key
    openai_shape,    \* which attributes the installed openai module has
    fx_pc, fx_in, fx_out   \* harness applying one pure function to one input

vars == << session_state, api_key, run, hist, openai_api_key, openai_shape,
           fx_pc, fx_in, fx_out >>

-----------------------------------------------------------------------------
(* Optional values and truthiness                                          *)

None == << >>

Some(x) == << x >>

\* Python truthiness of an Optional[str] / Optional[bytes] whose payload is a
\* model string: None and the empty payload are falsy.
Truthy(opt) == opt # None /\ opt[1] # ""

-----------------------------------------------------------------------------
(* Characters.  Python's \w on a str pattern is Unicode-aware: it matches  *)
(* every alphanumeric of any script and the underscore.  "U+AC00" stands   *)
(* for the single Hangul letter of that code point.                        *)

AsciiWordChars ==
    { "a", "b", "c", "d", "e", "h", "o", "r", "s", "t", "u", "v", "w", "y",
      "E", "F", "G", "H", "Q", "Z", "0", "1", "2", "9", "_" }

UnicodeWordChars == { "U+AC00" }

\* [\w-]
IsIdChar(c) == c \in AsciiWordChars \cup UnicodeWordChars \cup { "-" }

\* {11}
IdLen == 11

\* the literal prefixes of the three patterns, in list order
patterns ==
    << << "v", "=" >>,
       << "y", "o", "u", "t", "u", ".", "b", "e", "/" >>,
       << "s", "h", "o", "r", "t", "s", "/" >> >>

\* lit occurs in s at position i
LitAt(s, lit, i) ==
    /\ i + Len(lit) - 1 <= Len(s)
    /\ \A k \in 1..Len(lit) : s[i + k - 1] = lit[k]

\* lit([\w-]{11}) matches s at position i
MatchAt(s, lit, i) ==
    /\ LitAt(s, lit, i)
    /\ i + Len(lit) + IdLen - 1 <= Len(s)
    /\ \A k \in 0..(IdLen - 1) : IsIdChar(s[i + Len(lit) + k])

\* re.search(pattern, url): the leftmost match, as Some(group(1)), or None
re_search(lit, s) ==
    LET hits == { i \in 1..Len(s) : MatchAt(s, lit, i) }
    IN  IF hits = {} THEN None
        ELSE LET i == CHOOSE j \in hits : \A h \in hits : j <= h
             IN  Some(SubSeq(s, i + Len(lit), i + Len(lit) + IdLen - 1))

RECURSIVE first_match(_, _)
\* for pattern in patterns[k..]: match = re.search(...); if match: return
first_match(url, k) ==
    IF k > Len(patterns) THEN None
    ELSE LET m == re_search(patterns[k], url)
         IN  IF m # None THEN m ELSE first_match(url, k + 1)

RECURSIVE last_match(_, _)
\* the patterns tried from the last to the first
last_match(url, k) ==
    IF k < 1 THEN None
    ELSE LET m == re_search(patterns[k], url)
         IN  IF m # None THEN m ELSE last_match(url, k - 1)

extract_video_id_reversed(url) == last_match(url, Len(patterns))

extract_video_id(url) == first_match(url, 1)

-----------------------------------------------------------------------------
(* The transcript service (youtube_transcript_api).  A response of the     *)
(* service to one run of fetch_transcript is a record                      *)
(*   list      "ok", or the exception list_transcripts raises              *)
(*   manual    the language codes that have a manually created track       *)
(*   generated the language codes that have an auto-generated track        *)
(*   fetch     "ok", or the exception transcript.fetch() raises            *)
(*   nfrags    the number of fragments of every track                      *)
(* TranscriptList.find_transcript is the library's: "Manually created      *)
(* transcripts are returned first and only if none are found, generated    *)
(* transcripts are used", decided language by language:                    *)
(*   for language_code in language_codes:                                  *)
(*       for transcript_dict in transcript_dicts:                          *)
(*           if language_code in transcript_dict: return ...               *)
(*   raise NoTranscriptFound                                               *)

Ok(v) == [ok |-> TRUE, value |-> v]

Raise(e) == [ok |-> FALSE, exc |-> e]

Track(lang, gen) == [language_code |-> lang, is_generated |-> gen]

\* the text of every fragment of a track: it names the track
FragText(t) ==
    IF t.is_generated
    THEN CASE t.language_code = "ko"    -> "ko (auto)"
           [] t.language_code = "en"    -> "en (auto)"
           [] t.language_code = "en-US" -> "en-US (auto)"
           [] t.language_code = "en-GB" -> "en-GB (auto)"
           [] OTHER                     -> "ja (auto)"
    ELSE t.language_code

\* transcript.fetch(): the list of items; item["text"] is the fragment text
Parts(t, n) == [i \in 1..n |-> [text |-> FragText(t)]]

RECURSIVE Join(_)
\* " ".join(item["text"] for item in parts)
Join(parts) ==
    IF Len(parts) = 0 THEN << >>
    ELSE IF Len(parts) = 1 THEN << parts[1].text >>
    ELSE << parts[1].text, " " >> \o Join(Tail(parts))

RECURSIVE find_in(_, _, _)
\* TranscriptList._find_transcript(language_codes, transcript_dicts), from
\* language_codes[k] on; dicts is a sequence of <<codes present, is_generated>>
find_in(codes, dicts, k) ==
    IF k > Len(codes) THEN None
    ELSE LET here == { d \in 1..Len(dicts) : codes[k] \in dicts[d][1] }
         IN  IF here = {} THEN find_in(codes, dicts, k + 1)
             ELSE LET d == CHOOSE x \in here : \A y \in here : x <= y
                  IN  Some(Track(codes[k], dicts[d][2]))

\* transcript_list.find_transcript(language_codes)
find_transcript(resp, codes) ==
    find_in(codes, << <<resp.manual, FALSE>>, <<resp.generated, TRUE>> >>, 1)

\* transcript_list.find_generated_transcript(language_codes)
find_generated_transcript(resp, codes) ==
    find_in(codes, << <<resp.generated, TRUE>> >>, 1)

PreferredLanguages == << "ko", "en", "en-US", "en-GB" >>

FallbackLanguages == << "en", "en-US", "en-GB" >>

TranscriptErrors == { "VideoUnavailable", "TranscriptsDisabled", "NoTranscriptFound" }

fetch_transcript(resp) ==
    IF resp.list # "ok" THEN Raise(resp.list)
    ELSE LET first == find_transcript(resp, PreferredLanguages)
             transcript ==
                 IF first # None THEN first
                 ELSE find_generated_transcript(resp, FallbackLanguages)
         IN  IF transcript = None THEN Raise("NoTranscriptFound")
             ELSE IF resp.fetch # "ok" THEN Raise(resp.fetch)
             ELSE Ok(Join(Parts(transcript[1], resp.nfrags)))

-----------------------------------------------------------------------------
(* The brew pipeline: one Streamlit script run per user interaction.       *)

Sessions == { "A", "B" }

MaxRuns == 2

\* run[s].pc: where the script run of session s stands
Resting == { "Idle", "Rejected", "Done", "Failed" }

\* the locals of a script run in which no brew is in progress
IdleRun ==
    [pc |-> "Idle", video_id |-> None, transcript_text |-> << >>,
     errors |-> << >>, calls |-> << >>]

\* lines 37-42
InitialSessionState == [script |-> None, audio |-> None, video_url |-> << >>]

\* hist[s] records, for stating properties only:
\*   n            the number of brew runs that passed validation
\*   script_run, audio_run   the run that stored the script, the audio (0: none)
\*   audio_src    the script the stored audio was synthesized from
\*   brew_key, brew_url      the inputs of the last Brew click
\*   composed, returned      what compose and the speech service returned in
\*                the current run, as Some(value), or None before they return
\*   last         the last interaction: "none", "rerun", "reset" or "brew"
\*   from         after a reset: the position and artifacts it was pressed in
NoFrom == << >>

InitialHist ==
    [n |-> 0, script_run |-> 0, audio_run |-> 0, audio_src |-> None,
     brew_key |-> "", brew_url |-> << >>, composed |-> None, returned |-> None,
     last |-> "none", from |-> NoFrom]

\* st.error(...) of lines 145, 147, 152, 162, 164
Error(msg, detail) == [msg |-> msg, detail |-> detail]

ValidationMessages == { "need_key", "need_url", "bad_url" }

\* the chain without its first branch
ValidationWithoutKeyCheck(key, url) ==
    IF url = << >> THEN "need_url"
    ELSE IF extract_video_id(url) = None THEN "bad_url"
    ELSE "ok"

\* the if / elif / else chain of lines 144-153
Validation(key, url) ==
    IF key = "" THEN "need_key"
    ELSE IF url = << >> THEN "need_url"
    ELSE IF extract_video_id(url) = None THEN "bad_url"
    ELSE "ok"

\* the broad except clause alone
error_message_generic(exc) == "generic"

\* the two except clauses of lines 161-164
error_message(exc) ==
    IF exc \in TranscriptErrors THEN "transcript" ELSE "generic"

\* a remote call as the services see it
Call(stage, via, key, input, ok) ==
    [stage |-> stage, via |-> via, key |-> key, input |-> input, ok |-> ok]

\* create_chat_completion: hasattr(openai, "ChatCompletion") picks the call
chat_via == IF openai_shape.ChatCompletion THEN "openai.ChatCompletion" ELSE "client"

\* create_tts_audio: hasattr(openai, "audio") and hasattr(openai.audio, "speech")
tts_via == IF openai_shape.audio_speech THEN "openai.audio.speech" ELSE "client"

\* the credential a call to the OpenAI service carries: the module-level
\* calls read openai.api_key when the request is made, and the client is
\* built with OpenAI(api_key=openai.api_key) right before the request
KeyOfCall == openai_api_key

\* lines 113-117: the response of the speech service, normalised to bytes
audio_bytes(audio_response) ==
    IF audio_response.read # None THEN audio_response.read[1]
    ELSE IF audio_response.content # None THEN audio_response.content[1]
    ELSE audio_response.raw

\* the bytes the speech service sent, whatever object carries them
Payload(audio_response) ==
    IF audio_response.content # None THEN audio_response.content[1]
    ELSE audio_response.raw

\* lines 166-172: what the page shows below the inputs
ShownScript(s) ==
    IF Truthy(session_state[s].script) THEN session_state[s].script ELSE None

ShownAudio(s) ==
    IF Truthy(session_state[s].audio) THEN session_state[s].audio ELSE None

\* a rerun in which neither button is pressed (a text input was edited)
Rerun(s) ==
    /\ run' = [run EXCEPT ![s] = IdleRun]
    /\ hist' = [hist EXCEPT ![s] = [@ EXCEPT !.last = "rerun", !.from = NoFrom]]

\* the user edits the sidebar input OPENAI_API_KEY
EditKey(s, k) ==
    /\ run[s].pc \in Resting
    /\ api_key[s] # k
    /\ api_key' = [api_key EXCEPT ![s] = k]
    /\ Rerun(s)
    /\ UNCHANGED << session_state, openai_api_key, openai_shape, fx_pc, fx_in, fx_out >>

\* the user edits the text input bound to st.session_state.video_url
EditUrl(s, u) ==
    /\ run[s].pc \in Resting
    /\ session_state[s].video_url # u
    /\ session_state' = [session_state EXCEPT ![s].video_url = u]
    /\ Rerun(s)
    /\ UNCHANGED << api_key, openai_api_key, openai_shape, fx_pc, fx_in, fx_out >>

\* the Re-brew button without line 133
ResetKeepsAudio(s) ==
    /\ run[s].pc \in Resting
    /\ session_state' = [session_state EXCEPT ![s] =
                            [@ EXCEPT !.script = None, !.video_url = << >>]]
    /\ run' = [run EXCEPT ![s] = IdleRun]
    /\ hist' = [hist EXCEPT ![s] =
                   [@ EXCEPT !.script_run = 0, !.audio_run = 0,
                             !.audio_src = None, !.last = "reset",
                             !.from = << run[s].pc, session_state[s] >>]]
    /\ UNCHANGED << api_key, openai_api_key, openai_shape, fx_pc, fx_in, fx_out >>

\* lines 131-135: the Re-brew button
Reset(s) ==
    /\ run[s].pc \in Resting
    /\ session_state' = [session_state EXCEPT ![s] =
                            [script |-> None, audio |-> None, video_url |-> << >>]]
    /\ run' = [run EXCEPT ![s] = IdleRun]
    /\ hist' = [hist EXCEPT ![s] =
                   [@ EXCEPT !.script_run = 0, !.audio_run = 0,
                             !.audio_src = None, !.last = "reset",
                             !.from = << run[s].pc, session_state[s] >>]]
    /\ UNCHANGED << api_key, openai_api_key, openai_shape, fx_pc, fx_in, fx_out >>

\* lines 143-153: the Brew button, up to the first remote call
BrewClick(s) ==
    LET key == api_key[s]
        url == session_state[s].video_url
        v   == Validation(key, url)
    IN  /\ run[s].pc \in Resting
        /\ v = "ok" => hist[s].n < MaxRuns
        /\ openai_api_key' =
               IF v \in { "need_key", "need_url" } THEN openai_api_key ELSE Some(key)
        /\ run' = [run EXCEPT ![s] =
               [pc |-> IF v = "ok" THEN "Fetching" ELSE "Rejected",
                video_id |-> IF v \in { "need_key", "need_url" } THEN None
                             ELSE extract_video_id(url),
                transcript_text |-> << >>,
                errors |-> IF v = "ok" THEN << >> ELSE << Error(v, "") >>,
                calls |-> << >>]]
        /\ hist' = [hist EXCEPT ![s] =
               [@ EXCEPT !.n = IF v = "ok" THEN @ + 1 ELSE @,
                         !.brew_key = key, !.brew_url = url,
                         !.composed = None, !.returned = None,
                         !.last = "brew", !.from = NoFrom]]
        /\ UNCHANGED << session_state, api_key, openai_shape, fx_pc, fx_in, fx_out >>

\* the failure is reported and the stage is left to be tried again
FailAndRetry(s, call, exc) ==
    run' = [run EXCEPT ![s] =
               [@ EXCEPT !.calls = Append(@, call),
                         !.errors = Append(@, Error(error_message(exc), exc))]]

\* the run of session s fails with exception exc: lines 161-164
Fail(s, call, exc) ==
    run' = [run EXCEPT ![s] =
               [@ EXCEPT !.pc = "Failed",
                         !.calls = Append(@, call),
                         !.errors = Append(@, Error(error_message(exc), exc))]]

\* line 156: transcript_text = fetch_transcript(video_id)
FetchStep(s, resp) ==
    LET r    == fetch_transcript(resp)
        call == Call("fetch", "youtube", None, run[s].video_id[1], r.ok)
    IN  /\ run[s].pc = "Fetching"
        /\ IF r.ok
           THEN run' = [run EXCEPT ![s] =
                           [@ EXCEPT !.pc = "Composing",
                                     !.calls = Append(@, call),
                                     !.transcript_text = r.value]]
           ELSE Fail(s, call, r.exc)
        /\ UNCHANGED << session_state, api_key, hist, openai_api_key, openai_shape,
                        fx_pc, fx_in, fx_out >>

\* line 158: st.session_state.script = create_chat_completion(transcript_text)
ComposeStep(s, r) ==
    LET call == Call("compose", chat_via, KeyOfCall, run[s].transcript_text, r.ok)
    IN  /\ run[s].pc = "Composing"
        /\ IF r.ok
           THEN /\ session_state' = [session_state EXCEPT ![s].script = r.value]
                /\ run' = [run EXCEPT ![s] =
                              [@ EXCEPT !.pc = "Synthesizing",
                                        !.calls = Append(@, call)]]
                /\ hist' = [hist EXCEPT ![s] =
                               [@ EXCEPT !.script_run = hist[s].n,
                                         !.composed = Some(r.value)]]
           ELSE /\ Fail(s, call, r.exc)
                /\ UNCHANGED << session_state, hist >>
        /\ UNCHANGED << api_key, openai_api_key, openai_shape, fx_pc, fx_in, fx_out >>

\* line 160 with the script taken back when the synthesis fails
SynthStepRollback(s, r) ==
    LET script == session_state[s].script
        call   == Call("synthesize", tts_via, KeyOfCall, script, r.ok)
    IN  /\ run[s].pc = "Synthesizing"
        \* the service refuses a request without text
        /\ Truthy(script) \/ r = Raise("BadRequestError")
        /\ IF r.ok
           THEN /\ session_state' =
                       [session_state EXCEPT ![s].audio = Some(audio_bytes(r.value))]
                /\ run' = [run EXCEPT ![s] =
                              [@ EXCEPT !.pc = "Done", !.calls = Append(@, call)]]
                /\ hist' = [hist EXCEPT ![s] =
                               [@ EXCEPT !.audio_run = hist[s].n, !.audio_src = script,
                                         !.returned = Some(Payload(r.value))]]
           ELSE /\ Fail(s, call, r.exc)
                /\ session_state' = [session_state EXCEPT ![s].script = None]
                /\ UNCHANGED hist
        /\ UNCHANGED << api_key, openai_api_key, openai_shape, fx_pc, fx_in, fx_out >>

\* line 160: st.session_state.audio = create_tts_audio(st.session_state.script)
SynthStep(s, r) ==
    LET script == session_state[s].script
        call   == Call("synthesize", tts_via, KeyOfCall, script, r.ok)
    IN  /\ run[s].pc = "Synthesizing"
        \* the service refuses a request without text
        /\ Truthy(script) \/ r = Raise("BadRequestError")
        /\ IF r.ok
           THEN /\ session_state' =
                       [session_state EXCEPT ![s].audio = Some(audio_bytes(r.value))]
                /\ run' = [run EXCEPT ![s] =
                              [@ EXCEPT !.pc = "Done", !.calls = Append(@, call)]]
                /\ hist' = [hist EXCEPT ![s] =
                               [@ EXCEPT !.audio_run = hist[s].n, !.audio_src = script,
                                         !.returned = Some(Payload(r.value))]]
           ELSE /\ Fail(s, call, r.exc)
                /\ UNCHANGED << session_state, hist >>
        /\ UNCHANGED << api_key, openai_api_key, openai_shape, fx_pc, fx_in, fx_out >>

-----------------------------------------------------------------------------
(* The inputs: what the user types and what the services answer.           *)

ID_A == << "a", "b", "c", "d", "E", "F", "G", "H", "1", "2", "_" >>

ID_B == << "Z", "Q", "-", "9", "_", "0", "1", "2", "y", "w", "0" >>

\* eleven characters of [\w-], one of them outside [A-Za-z0-9_-]
ID_U == << "a", "b", "c", "d", "E", "U+AC00", "G", "H", "1", "2", "_" >>

\* ten characters only
TEN == << "a", "b", "c", "d", "E", "F", "G", "H", "1", "2" >>

Chunks ==
    { patterns[1], patterns[2], patterns[3], << "&" >>, ID_A, ID_B, ID_U, TEN }

MaxChunks == 4

RECURSIVE UrlsOf(_)
\* the strings made of at most n chunks
UrlsOf(n) ==
    IF n = 0 THEN { << >> }
    ELSE LET shorter == UrlsOf(n - 1)
         IN  shorter \cup { u \o c : u \in shorter, c \in Chunks }

\* what the user of the page types into the URL input
UrlInputs ==
    { << >>,
      patterns[1] \o ID_A,
      patterns[2] \o ID_B \o << "&" >> \o patterns[1] \o ID_A,
      patterns[3] \o TEN }

KeysOf(s) == { "", IF s = "A" THEN "kA" ELSE "kB" }

Languages == { "ko", "en", "en-US", "en-GB", "ja" }

MaxFrags == 2

ListOutcomes == { "ok", "TranscriptsDisabled", "VideoUnavailable", "TooManyRequests" }

FetchOutcomes == { "ok", "HTTPError" }

Response(l, m, g, f, n) ==
    [list |-> l, manual |-> m, generated |-> g, fetch |-> f, nfrags |-> n]

\* every answer of the transcript service, up to MaxFrags fragments a track
AllResponses ==
    { Response("ok", m, g, f, n) :
          m \in SUBSET Languages, g \in SUBSET Languages,
          f \in FetchOutcomes, n \in 0..MaxFrags }
    \cup { Response(l, {}, {}, "ok", 0) : l \in ListOutcomes \ { "ok" } }

\* the answers a brew run is tried on
Responses ==
    { Response("TranscriptsDisabled", {}, {}, "ok", 0),
      Response("VideoUnavailable", {}, {}, "ok", 0),
      Response("TooManyRequests", {}, {}, "ok", 0),
      Response("ok", { "ja" }, { "ja" }, "ok", 1),
      Response("ok", { "en" }, {}, "ok", MaxFrags),
      Response("ok", { "ko", "en" }, { "en" }, "HTTPError", 1),
      Response("ok", {}, { "ko" }, "ok", 0) }

ServiceErrors == { "AuthenticationError", "APIConnectionError", "BadRequestError" }

\* response.choices[0].message.content is Optional[str]
ComposeOutcomes ==
    { Ok(Some("script 1")), Ok(Some("script 2")), Ok(Some("")), Ok(None) }
    \cup { Raise(e) : e \in ServiceErrors }

AudioPayloads == { "mp3 1", "mp3 2" }

\* the shapes of the speech response: a stream with read() and content, an
\* object with content only, plain bytes
AudioResponses ==
    UNION { { [read |-> Some(b), content |-> Some(b), raw |-> "response object"],
              [read |-> None, content |-> Some(b), raw |-> "response object"],
              [read |-> None, content |-> None, raw |-> b] } : b \in AudioPayloads }

SynthOutcomes ==
    { Ok(a) : a \in AudioResponses } \cup { Raise(e) : e \in ServiceErrors }

OpenaiShapes == [ChatCompletion : BOOLEAN, audio_speech : BOOLEAN]

-----------------------------------------------------------------------------
(* Spec: one browser session.                                              *)

Init ==
    /\ session_state = [s \in Sessions |-> InitialSessionState]
    /\ api_key = [s \in Sessions |-> ""]
    /\ run = [s \in Sessions |-> IdleRun]
    /\ hist = [s \in Sessions |-> InitialHist]
    /\ openai_api_key = None
    /\ openai_shape \in OpenaiShapes
    /\ fx_pc = "off"
    /\ fx_in = << >>
    /\ fx_out = << >>

Next ==
    \/ \E k \in KeysOf("A") : EditKey("A", k)
    \/ \E u \in UrlInputs : EditUrl("A", u)
    \/ Reset("A")
    \/ BrewClick("A")
    \/ \E resp \in Responses : FetchStep("A", resp)
    \/ \E r \in ComposeOutcomes : ComposeStep("A", r)
    \/ \E r \in SynthOutcomes : SynthStep("A", r)

Spec == Init /\ [][Next]_vars

-----------------------------------------------------------------------------
(* SpecConc: two browser sessions served by one process.  Streamlit runs   *)
(* each session's script in a thread of its own; the module openai, and so *)
(* openai.api_key, is shared.  A script run can be preempted at each       *)
(* remote call.  Both users have typed their key and a URL.                *)

UrlOf(s) == IF s = "A" THEN patterns[1] \o ID_A ELSE patterns[2] \o ID_B

KeyOf(s) == IF s = "A" THEN "kA" ELSE "kB"

ConcResponses ==
    { Response("ok", { "en" }, {}, "ok", 1), Response("TranscriptsDisabled", {}, {}, "ok", 0) }

ConcComposeOutcomes == { Ok(Some("script 1")), Raise("AuthenticationError") }

ConcSynthOutcomes ==
    { Ok([read |-> None, content |-> None, raw |-> "mp3 1"]), Raise("BadRequestError") }

InitConc ==
    /\ session_state = [s \in Sessions |-> [InitialSessionState EXCEPT !.video_url = UrlOf(s)]]
    /\ api_key = [s \in Sessions |-> KeyOf(s)]
    /\ run = [s \in Sessions |-> IdleRun]
    /\ hist = [s \in Sessions |-> [InitialHist EXCEPT !.last = "rerun"]]
    /\ openai_api_key = None
    /\ openai_shape \in OpenaiShapes
    /\ fx_pc = "off"
    /\ fx_in = << >>
    /\ fx_out = << >>

NextConc ==
    \E s \in Sessions :
        \/ EditUrl(s, UrlOf(s))
        \/ Reset(s)
        \/ BrewClick(s)
        \/ \E resp \in ConcResponses : FetchStep(s, resp)
        \/ \E r \in ConcComposeOutcomes : ComposeStep(s, r)
        \/ \E r \in ConcSynthOutcomes : SynthStep(s, r)

SpecConc == InitConc /\ [][NextConc]_vars

-----------------------------------------------------------------------------
(* SpecExtract and SpecFetch: extract_video_id and fetch_transcript        *)
(* applied once to every input of a bounded set.                           *)

Quiet ==
    /\ session_state = [s \in Sessions |-> InitialSessionState]
    /\ api_key = [s \in Sessions |-> ""]
    /\ run = [s \in Sessions |-> IdleRun]
    /\ hist = [s \in Sessions |-> InitialHist]
    /\ openai_api_key = None
    /\ openai_shape = [ChatCompletion |-> FALSE, audio_speech |-> FALSE]

InitExtract ==
    /\ Quiet
    /\ fx_pc = "extract"
    /\ fx_in \in UrlsOf(MaxChunks)
    /\ fx_out = None

\* video_id = extract_video_id(video_url)
ExtractProbe ==
    /\ fx_pc = "extract"
    /\ fx_pc' = "extracted"
    /\ fx_out' = extract_video_id(fx_in)
    /\ UNCHANGED << session_state, api_key, run, hist, openai_api_key, openai_shape, fx_in >>

SpecExtract == InitExtract /\ [][ExtractProbe]_vars

InitFetch ==
    /\ Quiet
    /\ fx_pc = "fetch"
    /\ fx_in \in AllResponses
    /\ fx_out = None

\* transcript_text = fetch_transcript(video_id)
FetchProbe ==
    /\ fx_pc = "fetch"
    /\ fx_pc' = "fetched"
    /\ fx_out' = fetch_transcript(fx_in)
    /\ UNCHANGED << session_state, api_key, run, hist, openai_api_key, openai_shape, fx_in >>

SpecFetch == InitFetch /\ [][FetchProbe]_vars

-----------------------------------------------------------------------------
(* Properties of the brew handler (Spec).                                  *)

BrewInputInvalid(s) ==
    \/ hist[s].brew_key = ""
    \/ hist[s].brew_url = << >>
    \/ extract_video_id(hist[s].brew_url) = None

\* C1: a Brew click whose credential is empty, whose URL is empty or whose
\* URL holds no video id makes no remote call and shows one validation
\* error, whatever runs and resets came before.
C1_ValidationMakesNoRemoteCall ==
    \A s \in Sessions :
        (hist[s].last = "brew" /\ BrewInputInvalid(s)) =>
            /\ run[s].pc = "Rejected"
            /\ run[s].calls = << >>
            /\ Len(run[s].errors) = 1
            /\ run[s].errors[1].msg \in ValidationMessages

\* a URL without an id is rejected after an earlier run made its calls
C1_Witness ==
    \E s \in Sessions :
        /\ hist[s].last = "brew"
        /\ hist[s].n >= 1
        /\ hist[s].brew_key # ""
        /\ hist[s].brew_url # << >>
        /\ run[s].pc = "Rejected"
        /\ run[s].errors[1].msg = "bad_url"
        /\ Truthy(session_state[s].audio)

StageOrder == << "fetch", "compose", "synthesize" >>

\* C2: the remote calls of one run are a prefix of fetch, compose,
\* synthesize, each made once; every call before the last one succeeded,
\* and a failed call is the last call of its run.
C2_StagesInOrder ==
    \A s \in Sessions :
        LET c == run[s].calls
        IN  /\ Len(c) <= Len(StageOrder)
            /\ \A i \in 1..Len(c) :
                   /\ c[i].stage = StageOrder[i]
                   /\ i < Len(c) => c[i].ok
            /\ run[s].pc = "Fetching" => Len(c) = 0
            /\ run[s].pc = "Composing" => Len(c) = 1 /\ c[1].ok
            /\ run[s].pc = "Synthesizing" => Len(c) = 2 /\ c[2].ok
            /\ run[s].pc = "Done" => Len(c) = 3 /\ c[3].ok
            /\ run[s].pc = "Failed" => Len(c) >= 1 /\ ~c[Len(c)].ok

\* a run whose compose call failed after its fetch succeeded
C2_Witness ==
    \E s \in Sessions :
        /\ run[s].pc = "Failed"
        /\ Len(run[s].calls) = 2
        /\ run[s].calls[1].ok
        /\ ~run[s].calls[2].ok

\* C3: a failed run shows exactly one message; it is the transcript message
\* when the transcript stage failed with TranscriptsDisabled,
\* NoTranscriptFound or VideoUnavailable, and the generic message when the
\* compose or the synthesize stage failed.
C3_MessageByCategory ==
    \A s \in Sessions :
        run[s].pc = "Failed" =>
            LET failed == run[s].calls[Len(run[s].calls)]
                e      == run[s].errors[1]
            IN  /\ Len(run[s].errors) = 1
                /\ e.msg \in { "transcript", "generic" }
                /\ (failed.stage = "fetch" /\ e.detail \in TranscriptErrors)
                       => e.msg = "transcript"
                /\ failed.stage \in { "compose", "synthesize" } => e.msg = "generic"

\* no track in a wanted language: the transcript message
C3_Witness ==
    \E s \in Sessions :
        /\ run[s].pc = "Failed"
        /\ run[s].calls[Len(run[s].calls)].stage = "fetch"
        /\ run[s].errors[1].detail = "NoTranscriptFound"
        /\ run[s].errors[1].msg = "transcript"

\* the run of s failed in the synthesize stage
SynthesisFailed(s) ==
    /\ run[s].pc = "Failed"
    /\ Len(run[s].calls) = 3

\* C4: when compose succeeded and synthesize failed, the script compose
\* returned in that run is the stored script, and the page shows it.
C4_ScriptKeptWhenSynthesisFails ==
    \A s \in Sessions :
        SynthesisFailed(s) =>
            /\ hist[s].composed # None
            /\ session_state[s].script = hist[s].composed[1]
            /\ hist[s].script_run = hist[s].n
            /\ Truthy(hist[s].composed[1]) => ShownScript(s) = hist[s].composed[1]

\* a first run composes "script 1" and fails to synthesize it
C4_Witness ==
    \E s \in Sessions :
        /\ SynthesisFailed(s)
        /\ hist[s].composed = Some(Some("script 1"))
        /\ ShownScript(s) = Some("script 1")
        /\ session_state[s].audio = None

\* C5: after Re-brew, pressed in any state, the URL, the video id, the
\* script and the audio are empty or unset, no run is in progress and no
\* remote call was made.
C5_ResetClearsEverything ==
    \A s \in Sessions :
        hist[s].last = "reset" =>
            /\ session_state[s] = InitialSessionState
            /\ run[s] = IdleRun
            /\ ShownScript(s) = None
            /\ ShownAudio(s) = None

\* Re-brew pressed after a failed run that left a script and an older audio
C5_Witness ==
    \E s \in Sessions :
        /\ hist[s].last = "reset"
        /\ hist[s].from # NoFrom
        /\ hist[s].from[1] = "Failed"
        /\ Truthy(hist[s].from[2].script)
        /\ Truthy(hist[s].from[2].audio)
        /\ session_state[s].audio = None

\* C6: when a run that passed validation has ended, every script and audio
\* on display was produced by that run, and the audio was synthesized from
\* the script on display.
C6_ArtifactsAreFresh ==
    \A s \in Sessions :
        run[s].pc \in { "Done", "Failed" } =>
            /\ Truthy(session_state[s].script) => hist[s].script_run = hist[s].n
            /\ Truthy(session_state[s].audio) =>
                   /\ hist[s].audio_run = hist[s].n
                   /\ hist[s].audio_src = session_state[s].script

\* C9: the text given to the speech service is a non-empty string, the one
\* compose returned in this run and the stored script; on success the
\* stored audio is the bytes the service returned.
C9_ScriptPassedThroughNonEmpty ==
    \A s \in Sessions :
        \A i \in 1..Len(run[s].calls) :
            run[s].calls[i].stage = "synthesize" =>
                /\ run[s].calls[i].input # None
                /\ run[s].calls[i].input[1] # ""
                /\ hist[s].composed = Some(run[s].calls[i].input)
                /\ session_state[s].script = run[s].calls[i].input
                /\ run[s].pc = "Done" =>
                       /\ hist[s].returned # None
                       /\ session_state[s].audio = hist[s].returned

-----------------------------------------------------------------------------
(* Property of two sessions in one process (SpecConc).                     *)

\* C10: every text-generation and speech-synthesis call of a run carries
\* the credential given to the Brew click of that run.
C10_CallsUseOwnCredential ==
    \A s \in Sessions :
        \A i \in 1..Len(run[s].calls) :
            run[s].calls[i].stage \in { "compose", "synthesize" } =>
                run[s].calls[i].key = Some(hist[s].brew_key)

-----------------------------------------------------------------------------
(* Property of fetch_transcript (SpecFetch).                               *)

\* the least index of seq whose element is in set, as Some(index), or None
FirstIn(seq, set) ==
    LET hits == { k \in 1..Len(seq) : seq[k] \in set }
    IN  IF hits = {} THEN None
        ELSE Some(CHOOSE k \in hits : \A h \in hits : k <= h)

\* the track of the two-tier rule: the human-authored track of the first
\* language of ko, en, en-US, en-GB that has one, otherwise the
\* auto-generated track of the first language of en, en-US, en-GB that has one
TwoTierTrack(resp) ==
    LET human == FirstIn(PreferredLanguages, resp.manual)
        auto  == FirstIn(FallbackLanguages, resp.generated)
    IN  IF human # None THEN Some(Track(PreferredLanguages[human[1]], FALSE))
        ELSE IF auto # None THEN Some(Track(FallbackLanguages[auto[1]], TRUE))
        ELSE None

\* C7: fetch_transcript returns the fragment texts, joined by single spaces
\* in their order, of the track of the two-tier rule, and fails when the
\* rule finds no track.
C7_TwoTierSelection ==
    (fx_pc = "fetched" /\ fx_in.list = "ok" /\ fx_in.fetch = "ok") =>
        LET t == TwoTierTrack(fx_in)
        IN  IF t = None THEN ~fx_out.ok
            ELSE /\ fx_out.ok
                 /\ fx_out.value = Join(Parts(t[1], fx_in.nfrags))

-----------------------------------------------------------------------------
(* Properties of extract_video_id (SpecExtract).                           *)

UrlSafeChars == AsciiWordChars \cup { "-" }

PythonIdChars == AsciiWordChars \cup UnicodeWordChars \cup { "-" }

\* the text of shape p followed by IdLen characters of chars stands at url[i]
ShapeAt(url, p, i, chars) ==
    LET n == Len(patterns[p])
    IN  /\ i + n + IdLen - 1 <= Len(url)
        /\ SubSeq(url, i, i + n - 1) = patterns[p]
        /\ \A k \in (i + n)..(i + n + IdLen - 1) : url[k] \in chars

\* the X of the shape at url[i]
TokenAt(url, p, i) ==
    SubSeq(url, i + Len(patterns[p]), i + Len(patterns[p]) + IdLen - 1)

Occurrences(url, chars) ==
    { o \in (1..Len(patterns)) \X (1..Len(url)) : ShapeAt(url, o[1], o[2], chars) }

=============================================================================
